---- MODULE Spec2Model ----
(***************************************************************************)
(* The state machine runtime that generate_code (macros/src/codegen.rs)    *)
(* emits for a parsed transition table: the States/Events values, the      *)
(* Option slot holding the current state, and process_event executed one   *)
(* generated statement at a time.                                          *)
(***************************************************************************)
EXTENDS Naturals, Sequences, FiniteSets

\* ------------------------------------------------------------------ bounds
\* payload values range over 0..MaxData
MaxData == 1
\* a table holds at most MaxTransitions transitions
MaxTransitions == 2

\* --------------------------------------------------------- Option / Result
None == << >>
Some(x) == << x >>
Ok(x) == << "Ok", x >>
Err(e) == << "Err", e >>
InvalidEvent == << "InvalidEvent" >>
GuardFailed(e) == << "GuardFailed", e >>
Poisoned == << "Poisoned" >>

\* --------------------------------------------------- the parsed state machine
StateNames == {"State1", "State2"}
EventNames == {"Event1", "Event2"}
\* sm.state_data.data_types / sm.event_data.data_types: who carries a payload
state_data_types == {"State2"}
event_data_types == {"Event1"}
Data == 0 .. MaxData
\* values of the guard error type (GuardError, or () when not customised)
GuardErrors == {"e1", "e2"}

\* a value of the generated States / Events enum: a tag and zero or one payload
StateValue(s, d) == [tag |-> s, data |-> d]
States ==
    { StateValue(s, << >>) : s \in StateNames \ state_data_types }
        \cup { StateValue(s, << d >>) : s \in state_data_types, d \in Data }
Events ==
    { StateValue(e, << >>) : e \in EventNames \ event_data_types }
        \cup { StateValue(e, << d >>) : e \in event_data_types, d \in Data }

\* AsyncIdent: the guard or action named on a transition
AsyncIdent(i, a) == [ident |-> i, is_async |-> a]
GuardIdent(e) == IF e = "Event1" THEN "guard1" ELSE "guard2"
ActionIdent(e) == IF e = "Event1" THEN "action1" ELSE "action2"

Pairs == StateNames \X EventNames

\* what a transition may carry besides its (state, event) pair: a guard and an
\* action, each absent, synchronous or asynchronous, and a target state
Shapes ==
    [guard : {None} \cup { Some([is_async |-> b]) : b \in BOOLEAN },
     action : {None} \cup { Some([is_async |-> b]) : b \in BOOLEAN },
     out_state : StateNames]

\* the transition of shape sh on the pair p = <<state, event>>
Transition(p, sh) ==
    [in_state |-> p[1], event |-> p[2],
     guard |-> IF sh.guard = None THEN None
               ELSE Some(AsyncIdent(GuardIdent(p[2]), sh.guard[1].is_async)),
     action |-> IF sh.action = None THEN None
                ELSE Some(AsyncIdent(ActionIdent(p[2]), sh.action[1].is_async)),
     out_state |-> sh.out_state]

\* ------------------------------------------------ generate_code: the emitted code
\* mutant of events: arms are emitted only for the events that carry a payload
events_payload_only(mapping, s) == DOMAIN mapping[s] \cap event_data_types
\* the match arms of process_event: one per state of the mapping, and under it
\* one per event that state has a transition for
in_states(mapping) == DOMAIN mapping
events(mapping, s) == DOMAIN mapping[s]

\* mutant of guard_action_parameters: the event's payload is passed for both
guard_action_parameters_event_twice(st, ev) ==
    [state_data |-> IF st.tag \in state_data_types THEN ev.data ELSE << >>,
     event_data |-> IF ev.tag \in event_data_types THEN ev.data ELSE << >>]
\* the arguments a guard or action is called with: the payload bound by the
\* state pattern and the payload bound by the event pattern, each only if the
\* state / event carries one (the guard sees them by reference)
guard_action_parameters(st, ev) ==
    [state_data |-> IF st.tag \in state_data_types THEN st.data ELSE << >>,
     event_data |-> IF ev.tag \in event_data_types THEN ev.data ELSE << >>]
guard_action_ref_parameters(st, ev) == guard_action_parameters(st, ev)

\* mutant of out_states: the target state is built around a default payload
out_states_default(o, data) ==
    StateValue(o, IF o \in state_data_types THEN << 0 >> ELSE << >>)
\* States::#out_state, built from _data when the target state carries a payload
out_states(o, data) ==
    StateValue(o, IF o \in state_data_types THEN data ELSE << >>)

guard_await(g) == IF g.is_async THEN << "guard_await" >> ELSE << >>
action_await(a) == IF a.is_async THEN << "action_await" >> ELSE << >>

\* mutant of code_blocks: log_state_change is emitted before log_action
code_blocks_hooks_swapped(guard, action) ==
    IF guard /= None
    THEN IF action /= None
         THEN << "guard" >> \o guard_await(guard[1])
                  \o << "log_guard", "if_err", "action" >> \o action_await(action[1])
                  \o << "out_state", "log_state_change", "log_action", "set_state" >>
         ELSE << "guard", "log_guard", "if_err",
                 "out_state", "log_state_change", "set_state" >>
    ELSE IF action /= None
         THEN << "action" >> \o action_await(action[1])
                  \o << "out_state", "log_state_change", "log_action", "set_state" >>
         ELSE << "out_state", "log_state_change", "set_state" >>
\* mutant of code_blocks: the action is run before the guard's answer is tested
code_blocks_action_first(guard, action) ==
    IF guard /= None
    THEN IF action /= None
         THEN << "guard" >> \o guard_await(guard[1])
                  \o << "log_guard", "action" >> \o action_await(action[1])
                  \o << "if_err", "log_action", "out_state", "log_state_change",
                        "set_state" >>
         ELSE << "guard", "log_guard", "if_err",
                 "out_state", "log_state_change", "set_state" >>
    ELSE IF action /= None
         THEN << "action" >> \o action_await(action[1])
                  \o << "log_action", "out_state", "log_state_change", "set_state" >>
         ELSE << "out_state", "log_state_change", "set_state" >>
\* the statements of one (state, event) arm, in the order they are emitted
code_blocks(guard, action) ==
    IF guard /= None
    THEN IF action /= None
         THEN << "guard" >> \o guard_await(guard[1])
                  \o << "log_guard", "if_err", "action" >> \o action_await(action[1])
                  \o << "log_action", "out_state", "log_state_change", "set_state" >>
         ELSE << "guard", "log_guard", "if_err",
                 "out_state", "log_state_change", "set_state" >>
    ELSE IF action /= None
         THEN << "action" >> \o action_await(action[1])
                  \o << "log_action", "out_state", "log_state_change", "set_state" >>
         ELSE << "out_state", "log_state_change", "set_state" >>

\* the parameter list of the trait method declared for a guard / an action:
\* state_data and event_data as the declaring transition's state and event
\* carry them, whether it is an async fn, and for an action whether it returns
\* the target state's payload type or ()
guard_list(t) ==
    [state_data |-> t.in_state \in state_data_types,
     event_data |-> t.event \in event_data_types,
     is_async |-> t.guard[1].is_async]
action_list(t) ==
    [state_data |-> t.in_state \in state_data_types,
     event_data |-> t.event \in event_data_types,
     is_async |-> t.action[1].is_async,
     return_type |-> t.out_state \in state_data_types]

\* whether the arm emitted for transition t type-checks: _data is bound only by
\* an action, and a guard's future is a Result only once awaited
Compiles(t) ==
    /\ (t.action = None => t.out_state \notin state_data_types)
    /\ LET code == code_blocks(t.guard, t.action) IN
       (t.guard /= None /\ t.guard[1].is_async) =>
           \E i \in 1 .. Len(code) : code[i] = "guard_await"

\* whether the code generated for table T type-checks: every arm does, and a
\* guard / action named by several transitions is declared once, so every
\* call site has to pass what that one declaration takes
CompilesTable(T) ==
    /\ \A p \in DOMAIN T : Compiles(T[p])
    /\ \A p, q \in DOMAIN T :
         /\ (T[p].guard /= None /\ T[q].guard /= None
               /\ T[p].guard[1].ident = T[q].guard[1].ident)
              => guard_list(T[p]) = guard_list(T[q])
         /\ (T[p].action /= None /\ T[q].action /= None
               /\ T[p].action[1].ident = T[q].action[1].ident)
              => action_list(T[p]) = action_list(T[q])

\* the (state, event) pairs a table has transitions on: at least one and at
\* most MaxTransitions distinct pairs
TableDomains ==
    { Q \in SUBSET Pairs : Q /= {} /\ Cardinality(Q) <= MaxTransitions }
\* the tables with transitions on the pairs P whose generated code compiles
Tables(P) ==
    { T \in { [p \in P |-> Transition(p, sh[p])] :
                sh \in [P -> { x \in Shapes : Compiles(x) }] } :
        CompilesTable(T) }

\* sm.states_events_mapping: state name -> event name -> transition
states_events_mapping(T, mapped) ==
    [s \in mapped |-> [e \in { x \in EventNames : << s, x >> \in DOMAIN T } |-> T[<< s, e >>]]]

\* -------------------------------------------------------------- the machine
VARIABLES
    sm,            \* the parsed table the code was generated from
    state,         \* StateMachine.state: Option<States>
    code,          \* the statements of the matched arm still to run; empty between calls
    in_state,      \* the taken state the state pattern matched (binds state_data)
    event,         \* the event being dispatched (binds event_data)
    guard_result,  \* let guard_result
    action_data,   \* let _data
    out_state,     \* let out_state
    ret,           \* how the latest call ended
    trace,         \* guard, action and hook invocations of the latest call, in order
    aborted,       \* what cut short a dispatch that had taken the state, if any did
    call,          \* the latest call made on the machine
    gen,           \* generate_code's locals while it runs on sm
    twin,          \* a second instance built from the same table, and what the first returned
    history        \* what each call of a scripted run returned, in order

vars == << sm, state, code, in_state, event, guard_result, action_data, out_state,
           ret, trace, aborted, call, gen, twin, history >>

\* mutant of state_fn: an empty slot is reported as InvalidEvent
state_fn_invalid_event(slot) == IF slot = None THEN Err(InvalidEvent) ELSE Ok(slot[1])
\* pub fn state(&self)
state_fn(slot) == IF slot = None THEN Err(Poisoned) ELSE Ok(slot[1])

\* the values of the generated enums
StatesOf(m) == { s \in States : s.tag \in m.states }
EventsOf(m) == { e \in Events : e.tag \in m.events }

\* mutant of new: the starting state is built around a default payload
new_default(starting_state, state_data) ==
    Some(StateValue(starting_state,
                    IF starting_state \in state_data_types THEN << 0 >> ELSE << >>))
\* new: the starting state around the supplied payload if it carries one;
\* new_with_state: the supplied state
new(starting_state, state_data) ==
    Some(StateValue(starting_state,
                    IF starting_state \in state_data_types THEN state_data ELSE << >>))
new_with_state(initial_state) == Some(initial_state)

\* the ParsedStateMachine of table T: the States and Events enums list the
\* states and events the transitions name; every source state is a key of the
\* mapping, a state that is only a target may be one or not
InStates(T) == { p[1] : p \in DOMAIN T }
OutStates(T) == { T[p].out_state : p \in DOMAIN T }
\* sm.state_data / sm.event_data as far as generate_code reads their lifetimes:
\* per state / event name the lifetimes its payload type names, and the
\* lifetimes of the whole enum, which are those of all its variants
DataDefinitions(lifetimes) ==
    [lifetimes |-> lifetimes,
     all_lifetimes |-> UNION { lifetimes[k] : k \in DOMAIN lifetimes }]
\* payload types that borrow nothing
NoLifetimes == [k \in {} |-> {}]
ParsedStateMachine(T, mapped) ==
    [states |-> InStates(T) \cup OutStates(T),
     events |-> { p[2] : p \in DOMAIN T },
     states_events_mapping |-> states_events_mapping(T, mapped),
     state_data |-> DataDefinitions(NoLifetimes),
     event_data |-> DataDefinitions(NoLifetimes)]

\* the states the table may mark as its starting state: those it has a
\* transition from
StartingStates(m) ==
    { x \in DOMAIN m.states_events_mapping : DOMAIN m.states_events_mapping[x] /= {} }
\* the state_data argument new takes: present only if the starting state
\* carries a payload
NewArguments(s) == IF s \in state_data_types THEN { << d >> : d \in Data } ELSE { << >> }

\* no dispatch has started yet: the locals of process_event do not exist
NoDispatch ==
    /\ code = << >>
    /\ in_state = None
    /\ event = None
    /\ guard_result = None
    /\ action_data = None
    /\ out_state = None
    /\ trace = << >>
    /\ aborted = "none"

\* the machine right after its constructor; ret keeps what the constructor was given
Constructed ==
    \/ \E s \in StartingStates(sm) : \E state_data \in NewArguments(s) :
          /\ state = new(s, state_data)
          /\ call = "new"
          /\ ret = << s, state_data >>
    \/ \E initial_state \in StatesOf(sm) :
          /\ state = new_with_state(initial_state)
          /\ call = "new_with_state"
          /\ ret = << initial_state >>

Init ==
    /\ \E P \in TableDomains : \E T \in Tables(P) :
         \E mapped \in { InStates(T), InStates(T) \cup OutStates(T) } :
            sm = ParsedStateMachine(T, mapped)
    /\ Constructed
    /\ NoDispatch
    /\ gen = None
    /\ twin = None
    /\ history = << >>

\* ------------------------------------------------------------ process_event
mapping == sm.states_events_mapping

\* the arm of the transition being run; code holds its statements still to run
Arm == mapping[in_state[1].tag][event[1].tag]
\* #code_blocks, then the arm's value self.state()
arm_code(t) == code_blocks(t.guard, t.action) \o << "self.state()" >>
Running == code /= << >>
At(op) == Running /\ Head(code) = op
\* mutant of Borrowed: a call may start while another one is still running
Borrowed_never == FALSE
\* &mut self of process_event (&self of state and context): the machine stays
\* borrowed until the call, or the future it returned, is over
Borrowed == Running

\* mutant of in_state_value: the variant is rebuilt around a default payload
in_state_value_default(st) ==
    StateValue(st.tag, IF st.tag \in state_data_types THEN << 0 >> ELSE << >>)
\* States::#in_state as an expression: the matched variant rebuilt around the
\* state_data its pattern bound
in_state_value(st) ==
    StateValue(st.tag, IF st.tag \in state_data_types THEN st.data ELSE << >>)

\* mutant of take: the state is read and left in the slot
take_peek(slot) == slot
\* self.state.take(): the slot once the state has been moved out of it
take(slot) == None
\* mutant of GuardFailedRestore: the guard-failure branch returns without restoring
GuardFailedRestore_missing(st) == None
\* mutant of UnmappedRestore: the `state =>` arm returns without restoring
UnmappedRestore_missing(st) == None
\* mutant of SetStateValue: the slot is given back the source state
SetStateValue_source(o) == in_state
\* self.state = Some(States::#in_state) of the guard-failure branch
GuardFailedRestore(st) == Some(in_state_value(st))
\* self.state = Some(States::#in_states) of the `_ =>` arm
InvalidEventRestore(st) == Some(in_state_value(st))
\* self.state = Some(state) of the `state =>` arm
UnmappedRestore(st) == Some(st)
\* self.state = Some(out_state)
SetStateValue(o) == Some(o)

\* what a guard may answer: Ok(()) or Err(e)
GuardResults == { Ok("()") } \cup { Err(e) : e \in GuardErrors }
\* what an action may return for a target state: its payload type, or ()
ActionResults(o) == IF o \in state_data_types THEN { << d >> : d \in Data } ELSE { << >> }

LogProcessEvent(st, ev) == << "log_process_event", st, ev >>
LogGuard(g, r) == << "log_guard", g, r >>
LogAction(a) == << "log_action", a >>
LogStateChange(st) == << "log_state_change", st >>
GuardCall(g, args, r) == << "guard", g, args, r >>
ActionCall(a, args, d) == << "action", a, args, d >>

\* a call starts: the locals of the previous call are gone
Fresh ==
    /\ guard_result' = None
    /\ action_data' = None
    /\ out_state' = None
    /\ call' = "process_event"

\* self.state()? fails: the call returns Poisoned before any hook
ProcessEventPoisoned(ev) ==
    /\ ~Borrowed
    /\ state_fn(state)[1] = "Err"
    /\ ret' = state_fn(state)
    /\ trace' = << >>
    /\ in_state' = None
    /\ event' = None
    /\ Fresh
    /\ UNCHANGED << sm, gen, twin, history, state, code, aborted >>

\* log_process_event unwinds: the state has not been taken yet
LogProcessEventUnwinds(ev) ==
    /\ ~Borrowed
    /\ state_fn(state)[1] = "Ok"
    /\ trace' = << LogProcessEvent(state_fn(state)[2], ev) >>
    /\ ret' = << "unwound", "log_process_event" >>
    /\ in_state' = None
    /\ event' = None
    /\ Fresh
    /\ UNCHANGED << sm, gen, twin, history, state, code, aborted >>

\* the hook, the take, and the match reaches the arm of a transition
Dispatch(ev) ==
    /\ ~Borrowed
    /\ state_fn(state)[1] = "Ok"
    /\ state[1].tag \in in_states(mapping)
    /\ ev.tag \in events(mapping, state[1].tag)
    /\ trace' = << LogProcessEvent(state_fn(state)[2], ev) >>
    /\ state' = take(state)
    /\ in_state' = state
    /\ event' = Some(ev)
    /\ code' = arm_code(mapping[state[1].tag][ev.tag])
    /\ ret' = << >>
    /\ Fresh
    /\ UNCHANGED << sm, gen, twin, history, aborted >>

\* the match reaches the `_ =>` arm of a state of the mapping
InvalidEventArm(ev) ==
    /\ ~Borrowed
    /\ state_fn(state)[1] = "Ok"
    /\ state[1].tag \in in_states(mapping)
    /\ ev.tag \notin events(mapping, state[1].tag)
    /\ trace' = << LogProcessEvent(state_fn(state)[2], ev) >>
    /\ state' = InvalidEventRestore(state[1])
    /\ in_state' = state
    /\ event' = Some(ev)
    /\ ret' = Err(InvalidEvent)
    /\ Fresh
    /\ UNCHANGED << sm, gen, twin, history, code, aborted >>

\* the match reaches the final `state =>` arm
UnmappedStateArm(ev) ==
    /\ ~Borrowed
    /\ state_fn(state)[1] = "Ok"
    /\ state[1].tag \notin in_states(mapping)
    /\ trace' = << LogProcessEvent(state_fn(state)[2], ev) >>
    /\ state' = UnmappedRestore(state[1])
    /\ in_state' = state
    /\ event' = Some(ev)
    /\ ret' = Err(InvalidEvent)
    /\ Fresh
    /\ UNCHANGED << sm, gen, twin, history, code, aborted >>

\* let guard_result = self.context.#g(..): a synchronous guard answers here; an
\* asynchronous one only hands back its future
Guard ==
    /\ At("guard")
    /\ LET g == Arm.guard[1]
           args == guard_action_ref_parameters(in_state[1], event[1])
       IN  IF g.is_async
           THEN UNCHANGED << guard_result, trace >>
           ELSE \E r \in GuardResults :
                   /\ guard_result' = Some(r)
                   /\ trace' = Append(trace, GuardCall(g.ident, args, r))
    /\ code' = Tail(code)
    /\ UNCHANGED << sm, gen, twin, history, state, in_state, event, action_data, out_state, ret, aborted, call >>

\* .await on the guard's future: the guard runs to its answer
GuardAwait ==
    /\ At("guard_await")
    /\ LET g == Arm.guard[1]
           args == guard_action_ref_parameters(in_state[1], event[1])
       IN  \E r \in GuardResults :
              /\ guard_result' = Some(r)
              /\ trace' = Append(trace, GuardCall(g.ident, args, r))
    /\ code' = Tail(code)
    /\ UNCHANGED << sm, gen, twin, history, state, in_state, event, action_data, out_state, ret, aborted, call >>

\* self.context.log_guard(stringify!(#g), &guard_result)
LogGuardHook ==
    /\ At("log_guard")
    /\ guard_result /= None
    /\ trace' = Append(trace, LogGuard(Arm.guard[1].ident, guard_result[1]))
    /\ code' = Tail(code)
    /\ UNCHANGED << sm, gen, twin, history, state, in_state, event, guard_result, action_data, out_state,
                    ret, aborted, call >>

\* if let Err(e) = guard_result { restore; return Err(GuardFailed(e)) }
IfErr ==
    /\ At("if_err")
    /\ IF guard_result[1][1] = "Err"
       THEN /\ state' = GuardFailedRestore(in_state[1])
            /\ ret' = Err(GuardFailed(guard_result[1][2]))
            /\ code' = << >>
       ELSE /\ code' = Tail(code)
            /\ UNCHANGED << state, ret >>
    /\ UNCHANGED << sm, gen, twin, history, in_state, event, guard_result, action_data, out_state, trace,
                    aborted, call >>

\* let _data = self.context.#a(..): a synchronous action returns here
Action ==
    /\ At("action")
    /\ LET a == Arm.action[1]
           args == guard_action_parameters(in_state[1], event[1])
       IN  IF a.is_async
           THEN UNCHANGED << action_data, trace >>
           ELSE \E d \in ActionResults(Arm.out_state) :
                   /\ action_data' = Some(d)
                   /\ trace' = Append(trace, ActionCall(a.ident, args, d))
    /\ code' = Tail(code)
    /\ UNCHANGED << sm, gen, twin, history, state, in_state, event, guard_result, out_state, ret, aborted, call >>

\* .await on the action's future
ActionAwait ==
    /\ At("action_await")
    /\ LET a == Arm.action[1]
           args == guard_action_parameters(in_state[1], event[1])
       IN  \E d \in ActionResults(Arm.out_state) :
              /\ action_data' = Some(d)
              /\ trace' = Append(trace, ActionCall(a.ident, args, d))
    /\ code' = Tail(code)
    /\ UNCHANGED << sm, gen, twin, history, state, in_state, event, guard_result, out_state, ret, aborted, call >>

\* self.context.log_action(stringify!(#a))
LogActionHook ==
    /\ At("log_action")
    /\ trace' = Append(trace, LogAction(Arm.action[1].ident))
    /\ code' = Tail(code)
    /\ UNCHANGED << sm, gen, twin, history, state, in_state, event, guard_result, action_data, out_state,
                    ret, aborted, call >>

\* let out_state = States::#out_state
OutState ==
    /\ At("out_state")
    /\ out_state' = Some(out_states(Arm.out_state,
                                    IF action_data = None THEN << >> ELSE action_data[1]))
    /\ code' = Tail(code)
    /\ UNCHANGED << sm, gen, twin, history, state, in_state, event, guard_result, action_data, ret, trace,
                    aborted, call >>

\* self.context.log_state_change(&out_state)
LogStateChangeHook ==
    /\ At("log_state_change")
    /\ trace' = Append(trace, LogStateChange(out_state[1]))
    /\ code' = Tail(code)
    /\ UNCHANGED << sm, gen, twin, history, state, in_state, event, guard_result, action_data, out_state,
                    ret, aborted, call >>

\* self.state = Some(out_state)
SetState ==
    /\ At("set_state")
    /\ state' = SetStateValue(out_state[1])
    /\ code' = Tail(code)
    /\ UNCHANGED << sm, gen, twin, history, in_state, event, guard_result, action_data, out_state, ret, trace,
                    aborted, call >>

\* the arm's value: self.state()
Return ==
    /\ At("self.state()")
    /\ ret' = state_fn(state)
    /\ code' = << >>
    /\ UNCHANGED << sm, gen, twin, history, state, in_state, event, guard_result, action_data, out_state,
                    trace, aborted, call >>

\* the statement to run next runs the guard's / the action's / a hook's body
RunsGuard == (At("guard") /\ ~Arm.guard[1].is_async) \/ At("guard_await")
RunsAction == (At("action") /\ ~Arm.action[1].is_async) \/ At("action_await")
RunsHook == At("log_guard") \/ At("log_action") \/ At("log_state_change")

\* the call unwinds out of process_event: nothing after it runs
UnwindFrom(what) ==
    /\ aborted' = what
    /\ ret' = << "unwound", Head(code) >>
    /\ code' = << >>
    /\ UNCHANGED << sm, gen, twin, history, state, in_state, event, guard_result, action_data, out_state,
                    trace, call >>

GuardUnwinds == RunsGuard /\ UnwindFrom("guard")
ActionUnwinds == RunsAction /\ UnwindFrom("action")
HookUnwinds == RunsHook /\ UnwindFrom("hook")

\* the future of an asynchronous process_event is dropped while suspended
Abandon ==
    /\ At("guard_await") \/ At("action_await")
    /\ aborted' = "abandon"
    /\ ret' = << "dropped", Head(code) >>
    /\ code' = << >>
    /\ UNCHANGED << sm, gen, twin, history, state, in_state, event, guard_result, action_data, out_state,
                    trace, call >>

\* mutant of as_ref: an empty slot is filled with a default state
as_ref_or_insert(slot) == IF slot = None THEN Some(StateValue("State1", << >>)) ELSE slot
\* mutant of as_ref: the slot is emptied by taking the state out of it
as_ref_take(slot) == None
\* self.state.as_ref(): the slot after it has been borrowed
as_ref(slot) == slot

\* a call of state() between dispatches
StateCall ==
    /\ ~Borrowed
    /\ call' = "state"
    /\ ret' = state_fn(state)
    /\ state' = as_ref(state)
    /\ trace' = << >>
    /\ in_state' = None
    /\ event' = None
    /\ guard_result' = None
    /\ action_data' = None
    /\ out_state' = None
    /\ UNCHANGED << sm, gen, twin, history, code, aborted >>

\* a call of context() / context_mut() between dispatches: a reference to the
\* context field, which is not the slot
ContextCall(name) ==
    /\ ~Borrowed
    /\ call' = name
    /\ ret' = << "&self.context" >>
    /\ trace' = << >>
    /\ in_state' = None
    /\ event' = None
    /\ guard_result' = None
    /\ action_data' = None
    /\ out_state' = None
    /\ UNCHANGED << sm, gen, twin, history, state, code, aborted >>

Next ==
    \/ \E ev \in EventsOf(sm) :
         \/ ProcessEventPoisoned(ev)
         \/ LogProcessEventUnwinds(ev)
         \/ Dispatch(ev)
         \/ InvalidEventArm(ev)
         \/ UnmappedStateArm(ev)
    \/ Guard \/ GuardAwait \/ LogGuardHook \/ IfErr
    \/ Action \/ ActionAwait \/ LogActionHook
    \/ OutState \/ LogStateChangeHook \/ SetState \/ Return
    \/ GuardUnwinds \/ ActionUnwinds \/ HookUnwinds \/ Abandon
    \/ StateCall
    \/ ContextCall("context")
    \/ ContextCall("context_mut")

Spec == Init /\ [][Next]_vars

\* ============================================================== properties
\* a process_event call has returned a value (it did not unwind, was not dropped)
Returned ==
    /\ ~Running
    /\ call = "process_event"
    /\ Len(ret) = 2
    /\ ret[1] \in { "Ok", "Err" }
\* what it returned: Ok, InvalidEvent, GuardFailed or Poisoned
Kind == IF ret[1] = "Ok" THEN "Ok" ELSE ret[2][1]
\* the call found a state in the slot and dispatched on (in_state, event)
Dispatched == Returned /\ in_state /= None
\* the table defines a transition for the dispatched pair
Defined ==
    /\ in_state[1].tag \in DOMAIN sm.states_events_mapping
    /\ event[1].tag \in DOMAIN sm.states_events_mapping[in_state[1].tag]
\* the entries of the trace made by op
Entries(op) == { i \in 1 .. Len(trace) : trace[i][1] = op }
IsHook(x) == x[1] \in { "log_process_event", "log_guard", "log_action", "log_state_change" }
Hooks == SelectSeq(trace, IsHook)
\* the guard of this dispatch answered Err
GuardErred == \E i \in Entries("guard") : trace[i][4][1] = "Err"
GuardPassed == \E i \in Entries("guard") : trace[i][4][1] = "Ok"

\* C1: when the guard of the dispatched transition fails, process_event returns
\* GuardFailed carrying the very error the guard answered, and the current
\* state is again the state (variant and payload) it was before the call.
C1_GuardFailureRecovery ==
    Dispatched =>
        /\ GuardErred =>
             /\ Kind = "GuardFailed"
             /\ \A i \in Entries("guard") : ret = Err(GuardFailed(trace[i][4][2]))
             /\ state = in_state
        /\ Kind = "GuardFailed" => GuardErred
C1_Witness ==
    /\ Dispatched
    /\ Kind = "GuardFailed"
    /\ ret[2][2] = "e2"
    /\ in_state[1].data = << 1 >>
    /\ state = in_state

\* C2: an event with no transition from the current state, whether the state
\* has other transitions or none at all, returns InvalidEvent and leaves the
\* current state, payload included, as it was.
C2_InvalidEventUnchanged ==
    (Dispatched /\ ~Defined) =>
        /\ ret = Err(InvalidEvent)
        /\ state = in_state
C2_Witness ==
    /\ Dispatched
    /\ ~Defined
    /\ in_state[1].tag \in DOMAIN sm.states_events_mapping
    /\ DOMAIN sm.states_events_mapping[in_state[1].tag] /= {}
    /\ in_state[1].data = << 1 >>
    /\ ret = Err(InvalidEvent)

\* C3: every (state, event) pair can be dispatched from a present state, and a
\* dispatch that returns does so in exactly one of three ways: Ok for a defined
\* pair, GuardFailed for a defined pair whose guard failed, InvalidEvent for an
\* undefined pair.
C3_DispatchTotal ==
    /\ (~Running /\ state /= None) =>
          \A ev \in EventsOf(sm) :
             ENABLED (Dispatch(ev) \/ InvalidEventArm(ev) \/ UnmappedStateArm(ev))
    /\ Dispatched =>
          /\ Kind \in { "Ok", "GuardFailed", "InvalidEvent" }
          /\ Kind = "Ok" => Defined /\ ~GuardErred
          /\ Kind = "GuardFailed" => Defined /\ Arm.guard /= None /\ GuardErred
          /\ Kind = "InvalidEvent" => ~Defined
C3_Witness ==
    /\ Dispatched
    /\ Kind = "Ok"
    /\ Defined
    /\ Arm.guard /= None
    /\ in_state[1].tag \in state_data_types

\* the last hook invoked in this call
LastHook == Hooks[Len(Hooks)]

\* C4: a defined transition whose guard passed, or that has no guard, leaves the
\* machine in the transition's target state, has handed that same state to
\* log_state_change as the last hook, and returns Ok of that state.
C4_SuccessfulTransition ==
    (Dispatched /\ Defined /\ (Arm.guard = None \/ GuardPassed)) =>
        /\ state /= None
        /\ state[1].tag = Arm.out_state
        /\ LastHook = LogStateChange(state[1])
        /\ ret = Ok(state[1])
C4_Witness ==
    /\ Dispatched
    /\ Defined
    /\ Arm.guard /= None
    /\ GuardPassed
    /\ state /= in_state
    /\ state[1].tag \in state_data_types
    /\ ret = Ok(state[1])

\* C5: after a successful transition with an action the new state's payload is
\* exactly what the action returned; after one without an action the new state
\* has no payload.
C5_ActionCorrectness ==
    (Dispatched /\ Kind = "Ok") =>
        IF Arm.action /= None
        THEN /\ Cardinality(Entries("action")) = 1
             /\ \A i \in Entries("action") : state[1].data = trace[i][4]
        ELSE /\ Entries("action") = {}
             /\ state[1].data = << >>
C5_Witness ==
    /\ Dispatched
    /\ Kind = "Ok"
    /\ Arm.action /= None
    /\ state[1].data = << 1 >>
    /\ in_state[1].data = << 0 >>
    /\ event[1].data = << 0 >>

\* the hooks one returned dispatch has to have invoked, in order
ExpectedHooks ==
    << LogProcessEvent(in_state[1], event[1]) >>
        \o (IF Defined /\ Arm.guard /= None
            THEN << LogGuard(Arm.guard[1].ident,
                             IF Kind = "Ok" THEN Ok("()") ELSE Err(ret[2][2])) >>
            ELSE << >>)
        \o (IF Kind = "Ok" /\ Arm.action /= None
            THEN << LogAction(Arm.action[1].ident) >>
            ELSE << >>)
        \o (IF Kind = "Ok" THEN << LogStateChange(state[1]) >> ELSE << >>)

\* C6: a returned dispatch has invoked log_process_event once and first, with
\* the pre-dispatch state and the event; then log_guard with the guard's name
\* and answer iff the transition has a guard; then log_action iff it succeeded
\* and has an action, after the action ran; then log_state_change iff it
\* succeeded. Guard failure: the first two only; invalid event: the first only.
C6_HookOrder ==
    Dispatched =>
        /\ Hooks = ExpectedHooks
        /\ trace[1] = LogProcessEvent(in_state[1], event[1])
        /\ \A i \in Entries("log_guard") :
              \E j \in Entries("guard") : j < i /\ trace[i][3] = trace[j][4]
        /\ \A i \in Entries("log_action") : \E j \in Entries("action") : j < i
        /\ Kind = "GuardFailed" => Len(Hooks) = 2
        /\ Kind = "InvalidEvent" => Len(Hooks) = 1
C6_Witness ==
    /\ Dispatched
    /\ Kind = "Ok"
    /\ Len(Hooks) = 4
    /\ Arm.guard[1].is_async
    /\ Arm.action[1].is_async

\* C7: at every point of a dispatch the guard has been evaluated at most once
\* and before the action; once it has answered Err no action has run, neither
\* log_action nor log_state_change has been invoked and no out_state was built.
C7_FailedGuardNeverAdvances ==
    (call = "process_event" /\ in_state /= None) =>
        /\ Cardinality(Entries("guard")) <= 1
        /\ Cardinality(Entries("action")) <= 1
        /\ (Defined /\ Arm.guard /= None) =>
              \A j \in Entries("action") : \E i \in Entries("guard") : i < j
        /\ GuardErred =>
              /\ Entries("action") = {}
              /\ Entries("log_action") = {}
              /\ Entries("log_state_change") = {}
              /\ action_data = None
              /\ out_state = None
              /\ state \in { None, in_state }
C7_Witness ==
    /\ Returned
    /\ in_state /= None
    /\ GuardErred
    /\ Arm.action /= None
    /\ Arm.guard[1].is_async

\* C8: whenever process_event has returned Ok, GuardFailed or InvalidEvent the
\* slot holds a state and state() succeeds; the slot is empty between calls
\* only if some dispatch did not return.
C8_Restoration ==
    /\ (Returned /\ Kind \in { "Ok", "GuardFailed", "InvalidEvent" }) =>
          /\ state /= None
          /\ state_fn(state) = Ok(state[1])
    /\ (~Running /\ aborted = "none") => Len(state) = 1
    /\ Running => state = None \/ At("self.state()")
C8_Witness ==
    /\ Returned
    /\ Kind = "GuardFailed"
    /\ state /= None
    /\ Arm.action /= None

\* the slot is empty although no dispatch is in flight
IsPoisoned == ~Running /\ state = None

\* C9: over any sequence of dispatches, synchronous or asynchronous, the slot
\* is empty between calls only if a guard or an action unwound.
C9_PoisonedOnlyByGuardOrAction ==
    IsPoisoned => aborted \in { "guard", "action" }
\* C10: state() returns Poisoned exactly when the slot is empty, and
\* process_event on an empty slot returns Poisoned without invoking anything.
C10_PoisonedReported ==
    /\ (~Running /\ call = "state") =>
          /\ ret = Err(Poisoned) <=> state = None
          /\ state /= None => ret = Ok(state[1])
    /\ (~Running /\ call = "process_event" /\ state = None /\ in_state = None) =>
          ret = Err(Poisoned) /\ trace = << >>
    /\ (Returned /\ Kind = "Poisoned") => state = None
C10_Witness ==
    /\ Returned
    /\ ret = Err(Poisoned)
    /\ state = None
    /\ aborted = "guard"

\* C16: right after new the machine is in the starting state, around the
\* supplied payload if that state carries one; right after new_with_state it
\* is in exactly the supplied state; either way state() gives that state.
C16_Construction ==
    /\ call = "new" =>
          /\ ret[1] \in StartingStates(sm)
          /\ state = Some([tag |-> ret[1], data |-> ret[2]])
          /\ Len(ret[2]) = (IF ret[1] \in state_data_types THEN 1 ELSE 0)
    /\ call = "new_with_state" => state = Some(ret[1])
    /\ call \in { "new", "new_with_state" } =>
          /\ ~Running
          /\ trace = << >>
          /\ state_fn(state) = Ok(state[1])
C16_Witness ==
    /\ call = "new"
    /\ ret[2] = << 1 >>
    /\ state_fn(state) = Ok([tag |-> ret[1], data |-> << 1 >>])

\* C17: only a step of process_event changes the slot; state(), context() and
\* context_mut(), called at any point between dispatches, leave it as it was.
C17_OnlyDispatchMutates ==
    [][ /\ (state' /= state) => (call' = "process_event")
        /\ (call' \in { "state", "context", "context_mut" }) => (state' = state) ]_vars
C17_Witness ==
    /\ call = "context_mut"
    /\ state /= None
    /\ state[1].data = << 1 >>
    /\ aborted = "none"

\* C20: on a returned dispatch of a transition with an action, whose guard
\* passed or is absent, the action was invoked exactly once, with exactly the
\* payload the state held before the dispatch and the payload of the event,
\* each only if it carries one; a guard that ran before got the same two.
C20_ActionArguments ==
    (Dispatched /\ Defined /\ (Arm.guard = None \/ GuardPassed)) =>
        /\ Arm.action /= None =>
              /\ Cardinality(Entries("action")) = 1
              /\ \A i \in Entries("action") :
                    /\ trace[i][3].state_data = in_state[1].data
                    /\ trace[i][3].event_data = event[1].data
                    /\ \A j \in Entries("guard") : j < i /\ trace[j][3] = trace[i][3]
        /\ Arm.action = None => Entries("action") = {}
C20_Witness ==
    /\ Dispatched
    /\ Defined
    /\ GuardPassed
    /\ Arm.action /= None
    /\ in_state[1].data = << 1 >>
    /\ event[1].data = << 0 >>

C22_PoisonedAbsorbing ==
    [][ IsPoisoned =>
           /\ IsPoisoned'
           /\ call' = "process_event" => (ret' = Err(Poisoned) /\ trace' = << >>)
           /\ call' = "state" => ret' = Err(Poisoned) ]_vars
C22_Witness ==
    /\ IsPoisoned
    /\ aborted = "abandon"
    /\ call = "state"
    /\ ret = Err(Poisoned)

\* a guard or an action unwound during the latest dispatch, or its future was
\* dropped at a guard or action await
CutShort == aborted \in { "guard", "action", "abandon" }
\* C23: after a guard or action unwinds, or an asynchronous dispatch is
\* abandoned at a guard or action await, the slot is empty: the state the
\* dispatch started from is not put back, and the state() and process_event
\* calls made afterwards answer Poisoned.
C23_AbortLeavesSlotEmpty ==
    CutShort =>
        /\ IsPoisoned
        /\ call = "state" => ret = Err(Poisoned)
        /\ (call = "process_event" /\ in_state = None) =>
              (ret = Err(Poisoned) /\ trace = << >>)
        /\ (call = "process_event" /\ in_state /= None) =>
              (ret[1] \in { "unwound", "dropped" } /\ state /= in_state)
C23_Witness ==
    /\ aborted = "abandon"
    /\ call = "process_event"
    /\ in_state = None
    /\ ret = Err(Poisoned)
    /\ state = None

\* ===================================================== two instances, one table
\* The machine variables hold the instance that is being called; twin holds the
\* other instance's slot and, while the second instance runs, what the first
\* one's call did. Both are fed the same event, the first instance first.
FirstTurn == "first"
SecondTurn == "second"

\* mutant of TwinSlot: the slot is a static shared by all instances
TwinSlot_static == state
\* the other instance's own state field
TwinSlot == twin.state

\* the table the two instances are generated from, both started in one state
TwinInit ==
    /\ \E P \in TableDomains : \E T \in Tables(P) :
         \E mapped \in { InStates(T), InStates(T) \cup OutStates(T) } :
            sm = ParsedStateMachine(T, mapped)
    /\ Constructed
    /\ twin = [turn |-> FirstTurn, state |-> state, event |-> None,
               ret |-> << >>, trace |-> << >>]
    /\ NoDispatch
    /\ gen = None
    /\ history = << >>

\* the instance whose turn it is has not been called yet in this round
TwinReady == ~Running /\ (twin.turn = FirstTurn => twin.event = None)
              /\ (call = "process_event" => ret = << >>)
\* the first instance takes any event, the second the event the first was given
TwinEvent(ev) ==
    /\ TwinReady
    /\ twin.turn = SecondTurn => Some(ev) = twin.event

\* the call of the instance whose turn it is has returned
TwinReturned == ~Running /\ call = "process_event" /\ ret /= << >>

\* two invocations of the same guard / action with the same arguments
SameInvocation(a, b) ==
    /\ a[1] = b[1]
    /\ a[1] \in { "guard", "action" }
    /\ a[2] = b[2]
    /\ a[3] = b[3]
\* deterministic implementations: an invocation the second instance makes, that
\* the first instance made at the same point of its call, answers the same
Deterministic ==
    twin.turn = SecondTurn =>
        \A k \in 1 .. Len(trace') :
            (k <= Len(twin.trace) /\ SameInvocation(trace'[k], twin.trace[k]))
                => trace'[k] = twin.trace[k]

\* the first instance's call is over: the same event goes to the second
TwinSecond ==
    /\ twin.turn = FirstTurn
    /\ TwinReturned
    /\ twin' = [turn |-> SecondTurn, state |-> state, event |-> event,
                ret |-> ret, trace |-> trace]
    /\ state' = TwinSlot
    /\ ret' = << >>
    /\ trace' = << >>
    /\ in_state' = None
    /\ event' = None
    /\ guard_result' = None
    /\ action_data' = None
    /\ out_state' = None
    /\ UNCHANGED << sm, gen, history, code, aborted, call >>

\* the second instance's call is over too: the next round starts
TwinFirst ==
    /\ twin.turn = SecondTurn
    /\ TwinReturned
    /\ twin' = [turn |-> FirstTurn, state |-> state, event |-> None,
                ret |-> << >>, trace |-> << >>]
    /\ state' = TwinSlot
    /\ ret' = << >>
    /\ trace' = << >>
    /\ in_state' = None
    /\ event' = None
    /\ guard_result' = None
    /\ action_data' = None
    /\ out_state' = None
    /\ UNCHANGED << sm, gen, history, code, aborted, call >>

TwinNext ==
    \/ \E ev \in EventsOf(sm) :
         \/ TwinEvent(ev) /\ Dispatch(ev)
         \/ TwinEvent(ev) /\ InvalidEventArm(ev)
         \/ TwinEvent(ev) /\ UnmappedStateArm(ev)
    \/ Guard /\ Deterministic
    \/ GuardAwait /\ Deterministic
    \/ Action /\ Deterministic
    \/ ActionAwait /\ Deterministic
    \/ LogGuardHook \/ IfErr \/ LogActionHook
    \/ OutState \/ LogStateChangeHook \/ SetState \/ Return
    \/ TwinSecond \/ TwinFirst

SpecTwin == TwinInit /\ [][TwinNext]_vars

AllTables(P) == { [p \in P |-> Transition(p, sh[p])] : sh \in [P -> Shapes] }

\* transitions.iter(): the (state, event) pairs of the mapping and their transition
transitions(m) ==
    { p \in Pairs : /\ p[1] \in DOMAIN m.states_events_mapping
                    /\ p[2] \in DOMAIN m.states_events_mapping[p[1]] }
transition(m, p) == m.states_events_mapping[p[1]][p[2]]

\* mutant of already_added: the set of added names is never consulted
already_added_never(set, ident) == FALSE
\* guard_set.iter().any(|g| g == guard)
already_added(set, ident) == \E i \in 1 .. Len(set) : set[i] = ident

\* mutant of sets_sm_is_async: only an asynchronous action marks the machine
sets_sm_is_async_action_only(guard, action) ==
    action /= None /\ action[1].is_async
\* whether building the code block of a transition sets sm_is_async
sets_sm_is_async(guard, action) ==
    IF guard /= None
    THEN guard[1].is_async \/ (action /= None /\ action[1].is_async)
    ELSE action /= None /\ action[1].is_async

\* what a call site passes: state_data / event_data as the transition's own
\* state and event carry them
call_parameters(t) ==
    [state_data |-> t.in_state \in state_data_types,
     event_data |-> t.event \in event_data_types]
\* the parameters of a declared method
declared_parameters(decl) ==
    [state_data |-> decl.list.state_data, event_data |-> decl.list.event_data]

\* ---------------------------------------------------------------- lifetimes
\* the lifetimes payload types may name
LifetimeNames == { "'a", "'b" }
\* Lifetimes::new()
Lifetimes_new == {}
\* Lifetimes::extend: the lifetimes of other are added
extend(lifetimes, other) == lifetimes \cup other
\* &Lifetimes - &Lifetimes: the lifetimes of the left that the right lacks
sub(lifetimes, other) == lifetimes \ other
\* map.get(name).cloned().unwrap_or_default()
get_or_default(map, name) == IF name \in DOMAIN map THEN map[name] ELSE Lifetimes_new

\* mutant of all_lifetimes: the target state's lifetimes are left out
all_lifetimes_no_out_state(m, t) ==
    extend(extend(Lifetimes_new, get_or_default(m.state_data.lifetimes, t.in_state)),
           get_or_default(m.event_data.lifetimes, t.event))
\* all_lifetimes of one transition: those of its in_state, out_state and event
all_lifetimes(m, t) ==
    LET in_state_lifetimes == get_or_default(m.state_data.lifetimes, t.in_state)
        out_state_lifetimes == get_or_default(m.state_data.lifetimes, t.out_state)
        event_lifetimes == get_or_default(m.event_data.lifetimes, t.event)
    IN  extend(extend(extend(Lifetimes_new, in_state_lifetimes), out_state_lifetimes),
               event_lifetimes)

\* mutant of event_unique_lifetimes: every lifetime of the Events enum
event_unique_lifetimes_all(m) == m.event_data.all_lifetimes
\* lifetimes that exist in Events but not in States
event_unique_lifetimes(m) == sub(m.event_data.all_lifetimes, m.state_data.all_lifetimes)

\* generate_code is entered: its locals before the declaring loop
GenStart ==
    /\ gen = [todo |-> transitions(sm), state |-> "",
              guard_set |-> << >>, guard_list |-> << >>,
              action_set |-> << >>, action_list |-> << >>,
              sm_is_async |-> FALSE, code_blocks |-> None,
              is_async |-> None, is_async_trait |-> None,
              event_unique_lifetimes |-> None]
    /\ state = None
    /\ ret = << >>
    /\ call = "generate_code"
    /\ NoDispatch
    /\ twin = None
    /\ history = << >>

GenInit ==
    /\ \E P \in TableDomains : \E T \in AllTables(P) :
          sm = ParsedStateMachine(T, InStates(T))
    /\ GenStart

\* one iteration of the declaring loop, on the transition of pair p: the loop
\* goes through the states of the mapping and, under each, through its events
DeclareMethods(p) ==
    /\ p \in gen.todo
    /\ (\E q \in gen.todo : q[1] = gen.state) => p[1] = gen.state
    /\ LET t == transition(sm, p)
           add_guard == t.guard /= None /\ ~already_added(gen.guard_set, t.guard[1].ident)
           add_action == t.action /= None /\ ~already_added(gen.action_set, t.action[1].ident)
       IN  gen' = [gen EXCEPT
                     !.todo = @ \ { p },
                     !.state = p[1],
                     !.guard_set = IF add_guard THEN Append(@, t.guard[1].ident) ELSE @,
                     !.guard_list =
                         IF add_guard
                         THEN Append(@, [ident |-> t.guard[1].ident, list |-> guard_list(t),
                                          lifetimes |-> all_lifetimes(sm, t)])
                         ELSE @,
                     !.action_set = IF add_action THEN Append(@, t.action[1].ident) ELSE @,
                     !.action_list =
                         IF add_action
                         THEN Append(@, [ident |-> t.action[1].ident, list |-> action_list(t),
                                          lifetimes |-> all_lifetimes(sm, t)])
                         ELSE @]
    /\ UNCHANGED << sm, state, code, in_state, event, guard_result, action_data, out_state,
                    ret, trace, aborted, call, twin, history >>

\* let code_blocks = ... .collect(): the block of every transition, and
\* sm_is_async set along the way
CodeBlocks ==
    /\ gen.todo = {}
    /\ gen.code_blocks = None
    /\ gen' = [gen EXCEPT
                 !.code_blocks =
                     Some([p \in transitions(sm) |->
                              code_blocks(transition(sm, p).guard, transition(sm, p).action)]),
                 !.sm_is_async =
                     \E p \in transitions(sm) :
                        sets_sm_is_async(transition(sm, p).guard, transition(sm, p).action)]
    /\ UNCHANGED << sm, state, code, in_state, event, guard_result, action_data, out_state,
                    ret, trace, aborted, call, twin, history >>

\* let event_unique_lifetimes = .., let (is_async, is_async_trait) =
\* if sm_is_async { .. }, and the final quote
Quote ==
    /\ gen.code_blocks /= None
    /\ gen.is_async = None
    /\ gen' = [gen EXCEPT !.is_async = Some(gen.sm_is_async),
                          !.is_async_trait = Some(gen.sm_is_async),
                          !.event_unique_lifetimes = Some(event_unique_lifetimes(sm))]
    /\ UNCHANGED << sm, state, code, in_state, event, guard_result, action_data, out_state,
                    ret, trace, aborted, call, twin, history >>

GenNext ==
    \/ \E p \in Pairs : DeclareMethods(p)
    \/ CodeBlocks
    \/ Quote

SpecGen == GenInit /\ [][GenNext]_vars

\* the transitions of the table that name a guard / an action
WithGuard == { p \in transitions(sm) : transition(sm, p).guard /= None }
WithAction == { p \in transitions(sm) : transition(sm, p).action /= None }
\* the code blocks have been generated
Generated == gen.code_blocks /= None
\* the declaring loop is over
Declared == gen.todo = {}
\* the final quote has been built
Quoted == gen.is_async /= None
\* position of statement op in a code block, 0 if it has none
RECURSIVE Position(_, _)
Position(block, op) ==
    IF block = << >> THEN 0
    ELSE IF Head(block) = op THEN 1
    ELSE IF Position(Tail(block), op) = 0 THEN 0
    ELSE 1 + Position(Tail(block), op)

\* C12: in every generated code block of a transition whose guard is
\* asynchronous, with or without an action, the guard call is followed by its
\* .await, before log_guard gets the result and before the result is tested.
C12_AsyncGuardAwaited ==
    Generated =>
        \A p \in WithGuard :
            transition(sm, p).guard[1].is_async =>
                LET block == gen.code_blocks[1][p] IN
                /\ Position(block, "guard_await") = Position(block, "guard") + 1
                /\ Position(block, "guard_await") < Position(block, "log_guard")
                /\ Position(block, "guard_await") < Position(block, "if_err")

\* some guard or action of the table is marked async
AnyAsync ==
    \/ \E p \in WithGuard : transition(sm, p).guard[1].is_async
    \/ \E p \in WithAction : transition(sm, p).action[1].is_async
\* the statements of all generated code blocks
Statements ==
    UNION { { gen.code_blocks[1][p][i] : i \in 1 .. Len(gen.code_blocks[1][p]) } :
              p \in transitions(sm) }

\* C13: process_event is an async fn and the trait is an async trait exactly
\* when some guard or action of the table is marked async; with none marked,
\* neither is, and no generated code block contains an .await.
C13_AllOrNothingAsync ==
    /\ Quoted =>
          /\ gen.is_async = Some(AnyAsync)
          /\ gen.is_async_trait = Some(AnyAsync)
    /\ (Generated /\ ~AnyAsync) =>
          Statements \cap { "guard_await", "action_await" } = {}
C13_Witness ==
    /\ Quoted
    /\ gen.is_async = Some(TRUE)
    /\ gen.is_async_trait = Some(TRUE)
    /\ Cardinality(transitions(sm)) = 2
    /\ WithAction = {}
    /\ \E p \in WithGuard : transition(sm, p).guard[1].is_async
    /\ \E p \in WithGuard : ~transition(sm, p).guard[1].is_async

\* the declared methods of a name
GuardMethods(ident) ==
    { i \in 1 .. Len(gen.guard_list) : gen.guard_list[i].ident = ident }
ActionMethods(ident) ==
    { i \in 1 .. Len(gen.action_list) : gen.action_list[i].ident = ident }

\* C14: once the trait is declared, every transition that names a guard or an
\* action passes at its call site exactly the state_data / event_data
\* parameters the single declared method of that name takes.
C14_SharedSignatureFits ==
    Declared =>
        /\ \A p \in WithGuard :
              \A i \in GuardMethods(transition(sm, p).guard[1].ident) :
                 declared_parameters(gen.guard_list[i]) = call_parameters(transition(sm, p))
        /\ \A p \in WithAction :
              \A i \in ActionMethods(transition(sm, p).action[1].ident) :
                 declared_parameters(gen.action_list[i]) = call_parameters(transition(sm, p))

\* C15: once the declaring loop is over the trait has exactly one method for
\* each guard name and one for each action name some transition uses, however
\* many transitions use it, and no method for any other name.
C15_DeclaredOncePerName ==
    Declared =>
        /\ \A p \in WithGuard :
              Cardinality(GuardMethods(transition(sm, p).guard[1].ident)) = 1
        /\ \A p \in WithAction :
              Cardinality(ActionMethods(transition(sm, p).action[1].ident)) = 1
        /\ \A i \in 1 .. Len(gen.guard_list) :
              \E p \in WithGuard : transition(sm, p).guard[1].ident = gen.guard_list[i].ident
        /\ \A i \in 1 .. Len(gen.action_list) :
              \E p \in WithAction : transition(sm, p).action[1].ident = gen.action_list[i].ident
C15_Witness ==
    /\ Declared
    /\ Cardinality(WithGuard) = 2
    /\ Cardinality(WithAction) = 2
    /\ Len(gen.guard_list) = 1
    /\ Len(gen.action_list) = 1

\* ------------------------------------------- PartialEq for States and Events
\* core::mem::discriminant: the variant of an enum value, without its payload
discriminant(v) == v.tag
\* mutant of eq: the derived PartialEq, which compares payloads as well
eq_derived(self, other) == self = other
\* fn eq(&self, other: &Self) -> bool, the same body for States and Events
eq(self, other) == discriminant(self) = discriminant(other)

\* self == other on two values of the generated States enum
StatesEq ==
    \E self \in StatesOf(sm) : \E other \in StatesOf(sm) :
       /\ call' = "States::eq"
       /\ ret' = << self, other, eq(self, other) >>
       /\ UNCHANGED << sm, gen, twin, history, state, code, in_state, event,
                       guard_result, action_data, out_state, trace, aborted >>
\* self == other on two values of the generated Events enum
EventsEq ==
    \E self \in EventsOf(sm) : \E other \in EventsOf(sm) :
       /\ call' = "Events::eq"
       /\ ret' = << self, other, eq(self, other) >>
       /\ UNCHANGED << sm, gen, twin, history, state, code, in_state, event,
                       guard_result, action_data, out_state, trace, aborted >>

EqNext == StatesEq \/ EventsEq
SpecEq == Init /\ [][EqNext]_vars

Compared == call \in { "States::eq", "Events::eq" }
\* C18: two state values, and two event values, are equal exactly when they
\* are the same variant: equal payloads are not needed for equality, and
\* different variants are never equal.
C18_EqualityByTag ==
    Compared =>
        /\ ret[1].tag = ret[2].tag => ret[3] = TRUE
        /\ ret[1].tag /= ret[2].tag => ret[3] = FALSE
C18_Witness ==
    /\ call = "States::eq"
    /\ ret[1] = StateValue("State2", << 0 >>)
    /\ ret[2] = StateValue("State2", << 1 >>)
    /\ ret[3] = TRUE

\* ===================================== examples/state_machine_logger.rs
\* main dispatches at most MaxEvents events
MaxEvents == 3

\* *State1 + Event1(MyEventData) [guard1] / action1 = State2,
\* State2(MyStateData) + Event2 [guard2] / action2 = State3
LoggerTable ==
    [p \in { << "State1", "Event1" >>, << "State2", "Event2" >> } |->
        Transition(p, [guard |-> Some([is_async |-> FALSE]),
                       action |-> Some([is_async |-> FALSE]),
                       out_state |-> IF p[1] = "State1" THEN "State2" ELSE "State3"])]

\* mutant of guard1: every payload is accepted
guard1_always(event_data) == Ok("()")
\* fn guard1(&mut self, event_data: &MyEventData) -> Result<(), ()>
guard1(event_data) == IF event_data[1] % 2 = 0 THEN Ok("()") ELSE Err("()")
\* fn action1(&mut self, event_data: MyEventData) -> MyStateData
action1(event_data) == << event_data[1] >>
\* fn guard2(&mut self, state_data: &MyStateData) -> Result<(), ()>
guard2(state_data) == IF state_data[1] % 2 = 0 THEN Ok("()") ELSE Err("()")
\* fn action2(&mut self, state_data: MyStateData)
action2(state_data) == << >>

\* let mut sm = StateMachine::new(Context)
LoggerInit ==
    /\ \E mapped \in { InStates(LoggerTable),
                        InStates(LoggerTable) \cup OutStates(LoggerTable) } :
          sm = ParsedStateMachine(LoggerTable, mapped)
    /\ state = new("State1", << >>)
    /\ call = "new"
    /\ ret = << "State1", << >> >>
    /\ NoDispatch
    /\ gen = None
    /\ twin = None
    /\ history = << >>

\* for event in events { sm.process_event(event) }: the next event is
\* dispatched once the call before it is over
LoggerEvent(ev) ==
    /\ call /= "process_event"
    /\ Len(history) < MaxEvents
    /\ \/ Dispatch(ev)
       \/ InvalidEventArm(ev)
       \/ UnmappedStateArm(ev)

\* the guard statement of the arm, run by the Context of the example
LoggerGuard ==
    /\ At("guard")
    /\ LET g == Arm.guard[1]
           args == guard_action_ref_parameters(in_state[1], event[1])
           r == IF g.ident = "guard1" THEN guard1(args.event_data)
                                      ELSE guard2(args.state_data)
       IN  /\ guard_result' = Some(r)
           /\ trace' = Append(trace, GuardCall(g.ident, args, r))
    /\ code' = Tail(code)
    /\ UNCHANGED << sm, gen, twin, history, state, in_state, event, action_data,
                    out_state, ret, aborted, call >>

\* the action statement of the arm, run by the Context of the example
LoggerAction ==
    /\ At("action")
    /\ LET a == Arm.action[1]
           args == guard_action_parameters(in_state[1], event[1])
           d == IF a.ident = "action1" THEN action1(args.event_data)
                                       ELSE action2(args.state_data)
       IN  /\ action_data' = Some(d)
           /\ trace' = Append(trace, ActionCall(a.ident, args, d))
    /\ code' = Tail(code)
    /\ UNCHANGED << sm, gen, twin, history, state, in_state, event, guard_result,
                    out_state, ret, aborted, call >>

\* let _ = sm.process_event(event): the call is over; what it returned and the
\* state it left are noted
Observe ==
    /\ ~Running
    /\ call = "process_event"
    /\ history' = Append(history, [event |-> event[1], result |-> ret, state |-> state])
    /\ call' = "main"
    /\ UNCHANGED << sm, gen, twin, state, code, in_state, event, guard_result,
                    action_data, out_state, ret, trace, aborted >>

LoggerNext ==
    \/ \E ev \in EventsOf(sm) : LoggerEvent(ev)
    \/ LoggerGuard
    \/ LogGuardHook
    \/ IfErr
    \/ LoggerAction
    \/ LogActionHook
    \/ OutState
    \/ LogStateChangeHook
    \/ SetState
    \/ Return
    \/ Observe
SpecLogger == LoggerInit /\ [][LoggerNext]_vars

\* the events of main, in order
Scenario ==
    << StateValue("Event1", << 1 >>), StateValue("Event1", << 0 >>),
       StateValue("Event2", << >>) >>
\* the first n calls were given the first n events of main
Replayed(n) ==
    /\ Len(history) >= n
    /\ \A i \in 1 .. n : history[i].event = Scenario[i]
\* C19: dispatching Event1(1), Event1(0), Event2 in that order from State1:
\* the first call fails with GuardFailed and the state is still State1, the
\* second succeeds with state State2(0), the third succeeds with state State3.
C19_ReferenceScenario ==
    /\ Replayed(1) =>
          /\ history[1].result = Err(GuardFailed("()"))
          /\ history[1].state = Some(StateValue("State1", << >>))
    /\ Replayed(2) =>
          /\ history[2].result = Ok(StateValue("State2", << 0 >>))
          /\ history[2].state = Some(StateValue("State2", << 0 >>))
    /\ Replayed(3) =>
          /\ history[3].result = Ok(StateValue("State3", << >>))
          /\ history[3].state = Some(StateValue("State3", << >>))
C19_Witness ==
    /\ Replayed(3)
    /\ state = Some(StateValue("State3", << >>))
    /\ call = "main"

\* ============================================== generate_code and lifetimes
\* generate_code run on tables whose payload types borrow: the payload of a
\* state or event names any of LifetimeNames. Guards and actions are
\* synchronous here; asynchrony plays no part in the lifetimes.
LifeShapes == { sh \in Shapes : /\ sh.guard /= None => ~sh.guard[1].is_async
                                /\ sh.action /= None => ~sh.action[1].is_async }
LifeTables(P) == { [p \in P |-> Transition(p, sh[p])] : sh \in [P -> LifeShapes] }
LifeInit ==
    /\ \E P \in TableDomains : \E T \in LifeTables(P) :
          LET m == ParsedStateMachine(T, InStates(T)) IN
          \E sl \in [m.states \cap state_data_types -> SUBSET LifetimeNames] :
             \E el \in [m.events \cap event_data_types -> SUBSET LifetimeNames] :
                sm = [m EXCEPT !.state_data = DataDefinitions(sl),
                               !.event_data = DataDefinitions(el)]
    /\ GenStart
SpecLife == LifeInit /\ [][GenNext]_vars

\* the lifetimes the payload of state / event name borrows with
StateLifetimes(name) ==
    IF name \in DOMAIN sm.state_data.lifetimes THEN sm.state_data.lifetimes[name] ELSE {}
EventLifetimes(name) ==
    IF name \in DOMAIN sm.event_data.lifetimes THEN sm.event_data.lifetimes[name] ELSE {}
\* the lifetimes the States / Events type needs: those of any of its variants
StatesTypeLifetimes == UNION { StateLifetimes(s) : s \in sm.states }
EventsTypeLifetimes == UNION { EventLifetimes(e) : e \in sm.events }
\* the lifetimes of the source state, target state and event of the transition on p
TransitionLifetimes(p) ==
    StateLifetimes(p[1]) \cup StateLifetimes(transition(sm, p).out_state)
        \cup EventLifetimes(p[2])
\* the transitions that name guard / action ident
UsesGuard(ident) == { p \in WithGuard : transition(sm, p).guard[1].ident = ident }
UsesAction(ident) == { p \in WithAction : transition(sm, p).action[1].ident = ident }

\* C24: process_event introduces exactly the lifetimes the Events type needs
\* and the States type does not; every declared guard / action method is
\* parameterized over the lifetimes of the source state, target state and
\* event of a transition naming it (of the transition, when only one does).
C24_DispatchLifetimes ==
    /\ Quoted =>
          gen.event_unique_lifetimes = Some(EventsTypeLifetimes \ StatesTypeLifetimes)
    /\ \A i \in 1 .. Len(gen.guard_list) :
          \E p \in UsesGuard(gen.guard_list[i].ident) :
             gen.guard_list[i].lifetimes = TransitionLifetimes(p)
    /\ \A i \in 1 .. Len(gen.action_list) :
          \E p \in UsesAction(gen.action_list[i].ident) :
             gen.action_list[i].lifetimes = TransitionLifetimes(p)
C24_Witness ==
    /\ Quoted
    /\ StatesTypeLifetimes = { "'a" }
    /\ EventsTypeLifetimes = { "'a", "'b" }
    /\ gen.event_unique_lifetimes = Some({ "'b" })
    /\ \E i \in 1 .. Len(gen.action_list) :
          /\ gen.action_list[i].lifetimes = { "'a", "'b" }
          /\ Cardinality(UsesAction(gen.action_list[i].ident)) = 1

====
